---- MODULE Spec2Model ----
(***************************************************************************)
(* A model of ControlFlow's Flow (controlflow/flows/flow.py): session      *)
(* scoping over the ambient context, parent-to-child seeding of events and *)
(* completed tasks, the task graph the flow delegates to, and the stepped  *)
(* run.  The collaborators flow.py imports but whose code is not part of   *)
(* the sources at hand (ctx, History, Graph, Task, Orchestrator) are       *)
(* modelled from the design document and are marked as such.               *)
(***************************************************************************)
EXTENDS Naturals, Sequences, FiniteSets

\* ------------------------------------------------------------------ bounds
NumFlows == 2
NumThreads == 2
MaxDepth == 5
MaxThreadDepth == 1
MaxSeedDepth == 1
NumTasks == 3
MaxEvents == 3
MaxSteps == 2

None == 0
Flows == 1..NumFlows
Threads == 1..NumThreads
Tasks == 1..NumTasks

SetMin(S) == CHOOSE x \in S : \A y \in S : x <= y

\* The thread of control of the sequential scenarios, and the flow that is
\* constructed first in them.
MainThread == SetMin(Threads)
MainFlow == SetMin(Flows)

VARIABLES
    ctxStore,   \* thread of control -> the ambient context (ctx) it sees
    cm_stack,   \* Flow -> Flow._cm_stack, the context managers it has open
    withStack,  \* thread of control -> the `with flow:` blocks it has open
    lastExit,   \* what the step just taken did, if it was a Flow.__exit__
    made,       \* the Flow objects constructed so far
    thread_id,  \* Flow -> Flow.thread_id
    history,    \* thread id -> the events the History holds for it, in order
    nextEvent,  \* the identifier the next new event gets
    seed,       \* Flow -> what its construction copied from its parent
    appended,   \* Flow -> the events add_events gave it after construction
    graph,      \* Flow -> Flow.graph
    depends_on, \* Task -> the tasks it declares as dependencies
    status,     \* Task -> its lifecycle status
    policy,     \* what Graph.add_task does with an unknown dependency
    lastAdd,    \* what the step just taken did, if it was a Flow.add_task
    view,       \* Flow -> the last `tasks` read since its last add_task
    orch,       \* the Orchestrator of the run in progress
    returned,   \* what the step just taken returned, if it ended a run
    rendered    \* what the step just taken rendered, if it was a render

scopeVars == <<ctxStore, cm_stack, withStack>>
flowVars == <<made, thread_id, seed>>
eventVars == <<history, nextEvent, appended>>
taskVars == <<depends_on, status, policy>>
graphVars == <<graph, view>>
runVars == <<orch, returned>>
vars == <<scopeVars, flowVars, eventVars, taskVars, graphVars, lastExit, lastAdd,
          runVars, rendered>>

\* ------------------------------------------------ ambient context (ctx)
\* ctx with nothing set: ctx.get(key) is None for every key.
EmptyCtx == [flow |-> None, prefect_flow |-> None]

ctx_get(t, key) == ctxStore[t][key]

\* ctx(**kwargs) on entry: the keys given override the current ones.
ctx_merge(store, kwargs) ==
    [k \in DOMAIN store |-> IF k \in DOMAIN kwargs THEN kwargs[k] ELSE store[k]]

\* ctx(**kwargs) on exit, run by thread t for a scope opened by token.owner:
\* the value saved on entry is put back.  A scope opened by another thread of
\* control belongs to that thread's context: the reset either fails and
\* leaves t's context as it is, or writes the saved value into t's context.
ctx_reset(cm, t) ==
    IF cm.owner = t THEN {cm.token} ELSE {cm.token, ctxStore[t]}

\* A lookup that finds the flow constructed first whatever the context holds.
get_flow_first(t) == MainFlow

get_flow(t) == ctx_get(t, "flow")

\* ------------------------------------------------------- session scopes
ctx_args_no_flow(self, t) ==
    IF ctx_get(t, "prefect_flow") # self
        THEN [prefect_flow |-> self]
        ELSE [prefect_flow |-> ctx_get(t, "prefect_flow")]

\* Flow.create_context: the keys the scope sets.
ctx_args(self, t) ==
    IF ctx_get(t, "prefect_flow") # self
        THEN [flow |-> self, prefect_flow |-> self]
        ELSE [flow |-> self]

\* The context manager create_context returns, once entered by thread t:
\* it remembers the context it has to put back.
create_context(self, t) ==
    [id    |-> <<t, Len(withStack[t]) + 1>>,
     self  |-> self,
     owner |-> t,
     token |-> ctxStore[t]]

cm_pop_first(stack) == [cm |-> stack[1], rest |-> Tail(stack)]

\* self._cm_stack.pop()
cm_pop(stack) ==
    [cm |-> stack[Len(stack)], rest |-> SubSeq(stack, 1, Len(stack) - 1)]

NoExit ==
    [by |-> None, owner |-> None, popped |-> <<>>, matching |-> <<>>,
     before |-> EmptyCtx, after |-> EmptyCtx, err |-> FALSE, raised |-> FALSE]

\* No result: what a Python function without a return statement returns.
NoResult == [reported |-> FALSE, steps |-> 0, complete |-> FALSE,
             failed |-> {}, blocked |-> {}]
\* steps=None: no step budget.
NoBudget == [bounded |-> FALSE, steps |-> 0]
NoRun == [flow |-> None, pc |-> "idle", asked |-> NoBudget, bounded |-> FALSE,
          steps |-> 0, consumed |-> 0, task |-> None]
NoReturn == [flow |-> None, asked |-> NoBudget, orchestrator |-> NoResult,
             value |-> NoResult]

NoAdd == [flow |-> None, task |-> None, err |-> "none",
          unchanged |-> TRUE, sorted |-> TRUE]

EmptyString == <<>>
NoKwargs == [upstream_tasks |-> {}, downstream_tasks |-> {}]
NoRender == [kind |-> "none", context |-> {}, instructions |-> <<>>,
             kwargs |-> NoKwargs, text |-> EmptyString]

\* `with flow:` entered by thread t: Flow.__enter__.
Flow_enter(t, f) ==
    /\ f \in made
    /\ Len(withStack[t]) < MaxDepth
    /\ LET cm == create_context(f, t) IN
        /\ cm_stack' = [cm_stack EXCEPT ![f] = Append(@, cm)]
        /\ ctxStore' = [ctxStore EXCEPT ![t] = ctx_merge(@, ctx_args(f, t))]
        /\ withStack' = [withStack EXCEPT ![t] =
               Append(@, [flow |-> f, cm |-> cm.id, before |-> ctxStore[t]])]
    /\ lastExit' = NoExit
    /\ lastAdd' = NoAdd
    /\ returned' = NoReturn
    /\ rendered' = NoRender
    /\ UNCHANGED <<flowVars, eventVars, taskVars, graphVars, orch>>

\* The innermost `with flow:` block of thread t ends, normally or (err) with
\* an exception raised by its body: Flow.__exit__(*exc_info).
Flow_exit(t, err) ==
    /\ withStack[t] # <<>>
    /\ LET top == withStack[t][Len(withStack[t])]
           f == top.flow
           p == cm_pop(cm_stack[f])
       IN
        /\ cm_stack[f] # <<>>
        /\ cm_stack' = [cm_stack EXCEPT ![f] = p.rest]
        /\ \E restored \in ctx_reset(p.cm, t) :
            /\ ctxStore' = [ctxStore EXCEPT ![t] = restored]
            /\ lastExit' =
                [by |-> t, owner |-> p.cm.owner, popped |-> p.cm.id,
                 matching |-> top.cm, before |-> top.before,
                 after |-> restored, err |-> err,
                 \* the generator re-raises the body's exception, so
                 \* __exit__ returns False and the exception propagates
                 raised |-> err]
        /\ withStack' = [withStack EXCEPT ![t] = SubSeq(@, 1, Len(@) - 1)]
    /\ lastAdd' = NoAdd
    /\ returned' = NoReturn
    /\ rendered' = NoRender
    /\ UNCHANGED <<flowVars, eventVars, taskVars, graphVars, orch>>

\* ------------------------------------------------------ event history
\* History.get_events(thread_id=...) with no filter: the events of the
\* thread, in the order they were appended.
History_get_events(tid) == history[tid]

\* History.add_events(thread_id=..., events=...): appended in the order given.
History_add_events(h, tid, events) == [h EXCEPT ![tid] = @ \o events]

\* A flow that reads the thread of the flow constructed first.
Flow_get_events_first(self_tid) == History_get_events(1)

\* Flow.get_events() with no filter and no limit, self_tid being
\* self.thread_id.
Flow_get_events(self_tid) == History_get_events(self_tid)

\* A flow that writes to the thread of the flow constructed first.
Flow_add_events_first(h, self_tid, events) == History_add_events(h, 1, events)

\* Flow.add_events(events): the History after the call.
Flow_add_events(h, self_tid, events) == History_add_events(h, self_tid, events)

SeqElems(s) == {s[i] : i \in DOMAIN s}

\* ----------------------------------------------------------- task graph
EmptyGraph == [tasks |-> <<>>, edges |-> {}]

Registered(g) == SeqElems(g.tasks)

RECURSIVE Ascending(_)
Ascending(S) ==
    IF S = {} THEN <<>> ELSE <<SetMin(S)>> \o Ascending(S \ {SetMin(S)})

\* Kahn's algorithm; among the tasks whose dependencies are all out already,
\* the one registered first goes next.
RECURSIVE Kahn(_, _)
Kahn(g, out) ==
    LET ready == {i \in DOMAIN g.tasks :
                    /\ g.tasks[i] \notin SeqElems(out)
                    /\ \A e \in g.edges : e[2] = g.tasks[i] => e[1] \in SeqElems(out)}
    IN IF ready = {} THEN out
       ELSE CHOOSE sorted \in {Kahn(g, next) :
                        next \in {Append(out, g.tasks[SetMin(ready)])}} : TRUE

\* Graph.topological_sort()
topological_sort(g) == Kahn(g, <<>>)

HasCycle(g) == Len(topological_sort(g)) < Len(g.tasks)

\* Registration of the tasks in queue and, when unknown dependencies are
\* registered on the fly, of the tasks they reference.
RECURSIVE Register(_, _)
Register(queue, tasks) ==
    IF queue = <<>> THEN tasks
    ELSE IF Head(queue) \in SeqElems(tasks) THEN Register(Tail(queue), tasks)
    ELSE Register(Tail(queue) \o Ascending(depends_on[Head(queue)]),
                  Append(tasks, Head(queue)))

\* Graph.add_task(task): the graph after the call and the error it raised.
\* A rejected call leaves the graph as it was.
Graph_add_task(g, t) ==
    LET tasks == IF policy = "auto" THEN Register(<<t>>, g.tasks)
                 ELSE IF t \in Registered(g) THEN g.tasks ELSE Append(g.tasks, t)
        new == SeqElems(tasks) \ Registered(g)
        cand == [tasks |-> tasks,
                 edges |-> g.edges \cup
                    {e \in Tasks \X Tasks : e[2] \in new /\ e[1] \in depends_on[e[2]]}]
    IN IF \E e \in cand.edges : e[1] \notin SeqElems(tasks)
         THEN [g |-> g, err |-> "DanglingDependencyError"]
       ELSE IF HasCycle(cand)
         THEN [g |-> g, err |-> "CycleError"]
       ELSE [g |-> cand, err |-> "none"]

\* Insertion that registers the task before it validates it.
Flow_add_task_unchecked(g, t) ==
    LET r == Graph_add_task(g, t) IN
    IF r.err = "none" THEN r
    ELSE [g |-> [tasks |-> IF t \in Registered(g) THEN g.tasks
                                ELSE Append(g.tasks, t),
                 edges |-> g.edges \cup {<<d, t>> : d \in depends_on[t]}],
          err |-> r.err]

\* Flow.add_task(task), g being self.graph: delegates to the graph.
Flow_add_task(g, t) == Graph_add_task(g, t)

Flow_tasks_insertion(f) == [value |-> graph[f].tasks, graph |-> graph[f]]

\* A sort that consumes the edges it has walked.
Flow_tasks_destructive(f) ==
    [value |-> topological_sort(graph[f]),
     graph |-> [graph[f] EXCEPT !.edges = {}]]

\* Flow.tasks: the value the property returns and the graph after the read.
Flow_tasks(f) == [value |-> topological_sort(graph[f]), graph |-> graph[f]]

\* Task.is_complete()
is_complete(t) == status[t] = "COMPLETE"

Unread == [first |-> <<>>, last |-> <<>>, before |-> EmptyGraph, read |-> FALSE]
NoSeed == [parent |-> None, copied |-> FALSE, events |-> <<>>, parentLen |-> 0,
           completed |-> {}, incomplete |-> {}, built |-> {}]

\* flow.add_task(task) called on a constructed flow.
AddTask(f, t) ==
    /\ f \in made
    /\ LET r == Flow_add_task(graph[f], t) IN
        /\ graph' = [graph EXCEPT ![f] = r.g]
        /\ lastAdd' = [flow |-> f, task |-> t, err |-> r.err,
                       unchanged |-> r.g = graph[f],
                       sorted |-> /\ ~HasCycle(r.g)
                                  /\ r.err # "none" =>
                                       topological_sort(r.g) = topological_sort(graph[f])]
    /\ view' = [view EXCEPT ![f] = Unread]
    /\ lastExit' = NoExit
    /\ returned' = NoReturn
    /\ rendered' = NoRender
    /\ UNCHANGED <<scopeVars, flowVars, eventVars, taskVars, orch>>

\* flow.tasks read on a constructed flow.
ReadTasks(f) ==
    /\ f \in made
    /\ LET r == Flow_tasks(f) IN
        /\ graph' = [graph EXCEPT ![f] = r.graph]
        /\ view' = [view EXCEPT ![f] =
              IF @.read THEN [@ EXCEPT !.last = r.value]
              ELSE [first |-> r.value, last |-> r.value,
                    before |-> graph[f], read |-> TRUE]]
    /\ lastExit' = NoExit
    /\ lastAdd' = NoAdd
    /\ returned' = NoReturn
    /\ rendered' = NoRender
    /\ UNCHANGED <<scopeVars, flowVars, eventVars, taskVars, orch>>

\* flow.add_events(events) called on a constructed flow with k new events.
AddEvents(f, k) ==
    /\ f \in made
    /\ nextEvent + k - 1 <= MaxEvents
    /\ LET events == [i \in 1..k |-> nextEvent + i - 1] IN
        /\ history' = Flow_add_events(history, thread_id[f], events)
        /\ appended' = [appended EXCEPT ![f] = @ \o events]
    /\ nextEvent' = nextEvent + k
    /\ lastExit' = NoExit
    /\ lastAdd' = NoAdd
    /\ returned' = NoReturn
    /\ rendered' = NoRender
    /\ UNCHANGED <<scopeVars, flowVars, taskVars, graphVars, orch>>

\* The loop of Flow.__init__: self.add_task for each task of todo, in order,
\* until one raises.
RECURSIVE AddAll(_, _)
AddAll(g, todo) ==
    IF todo = <<>> THEN [g |-> g, err |-> "none", task |-> None]
    ELSE LET r == Flow_add_task(g, Head(todo)) IN
         IF r.err # "none" THEN [g |-> r.g, err |-> r.err, task |-> Head(todo)]
         ELSE AddAll(r.g, Tail(todo))

\* Flow(copy_parent=...) constructed by thread t: Flow.__init__.  When an
\* add_task raises, so does the constructor and there is no new flow.
Flow_init(t, f, copy_parent) ==
    /\ f \notin made
    /\ LET parent == get_flow(t)
           seeding == parent # None /\ copy_parent
           tid == Cardinality(made) + 1
           events == IF seeding THEN Flow_get_events(thread_id[parent]) ELSE <<>>
           read == IF seeding THEN Flow_tasks(parent)
                   ELSE [value |-> <<>>, graph |-> EmptyGraph]
           r == AddAll(EmptyGraph, SelectSeq(read.value, is_complete))
           after == IF seeding THEN [graph EXCEPT ![parent] = read.graph] ELSE graph
       IN IF r.err # "none"
          THEN /\ lastAdd' = [flow |-> f, task |-> r.task, err |-> r.err,
                               unchanged |-> r.g = EmptyGraph, sorted |-> ~HasCycle(r.g)]
               /\ graph' = after
               /\ UNCHANGED <<made, thread_id, seed, history, view>>
          ELSE /\ made' = made \cup {f}
               /\ thread_id' = [thread_id EXCEPT ![f] = tid]
               /\ history' = IF seeding THEN Flow_add_events(history, tid, events)
                              ELSE history
               /\ graph' = [after EXCEPT ![f] = r.g]
               /\ seed' = [seed EXCEPT ![f] =
                     [parent |-> parent,
                      copied |-> seeding,
                      events |-> events,
                      parentLen |-> IF parent # None THEN Len(appended[parent])
                                    ELSE 0,
                      completed |-> IF seeding
                          THEN {x \in Registered(graph[parent]) : is_complete(x)}
                          ELSE {},
                      incomplete |-> IF seeding
                          THEN {x \in Registered(graph[parent]) : ~is_complete(x)}
                          ELSE {},
                      built |-> Registered(r.g)]]
               /\ view' = [view EXCEPT ![f] = Unread]
               /\ lastAdd' = NoAdd
    /\ lastExit' = NoExit
    /\ returned' = NoReturn
    /\ rendered' = NoRender
    /\ UNCHANGED <<scopeVars, nextEvent, appended, taskVars, orch>>

\* ------------------------------------------------------- orchestrator
Terminal == {"COMPLETE", "FAILED", "SKIPPED"}

RECURSIVE UpstreamClosure(_, _)
UpstreamClosure(g, S) ==
    LET more == {e[1] : e \in {x \in g.edges : x[2] \in S}} IN
    IF more \subseteq S THEN S ELSE UpstreamClosure(g, S \cup more)

\* Graph.upstream_tasks(tasks): what the tasks transitively require, the
\* tasks themselves left out.
upstream_tasks(g, S) == UpstreamClosure(g, S) \ S

\* Step (a): a PENDING task of the graph whose dependencies are all complete
\* is READY.
RecomputeReady(g, st) ==
    [t \in Tasks |->
        IF /\ t \in Registered(g)
           /\ st[t] = "PENDING"
           /\ \A e \in g.edges : e[2] = t => st[e[1]] = "COMPLETE"
        THEN "READY" ELSE st[t]]

\* A selection that gives up once a task has failed.
ReadyTasks_abort_on_failure(g, st) ==
    IF \E t \in Registered(g) : st[t] = "FAILED" THEN <<>>
    ELSE SelectSeq(topological_sort(g), LAMBDA t : st[t] = "READY")

\* Step (c): the READY tasks in topological order; the first is dispatched.
ReadyTasks(g, st) == SelectSeq(topological_sort(g), LAMBDA t : st[t] = "READY")

BlockedByFailure(g, st) ==
    {t \in Registered(g) :
        /\ st[t] \notin Terminal
        /\ \E u \in upstream_tasks(g, {t}) : st[u] = "FAILED"}

\* The end-of-run result of Orchestrator.run: the steps consumed, whether
\* every task is terminal, the FAILED tasks and the tasks left unfinished.
Orchestrator_result(g, st, consumed) ==
    [reported |-> TRUE,
     steps |-> consumed,
     complete |-> \A t \in Registered(g) : st[t] \in Terminal,
     failed |-> {t \in Registered(g) : st[t] = "FAILED"},
     blocked |-> {t \in Registered(g) : st[t] \notin Terminal}]

\* What Flow.run hands its caller: orchestrator.run(steps=steps) is called
\* as a statement and the function ends without a return.
Flow_run_return(result) == NoResult

Budgets == {NoBudget} \cup {[bounded |-> TRUE, steps |-> n] : n \in 1..MaxSteps}

\* A run that drops the caller's budget.
Flow_run_steps_dropped(budget) == NoBudget

\* A run that hands the orchestrator a budget of one step whatever it was given.
Flow_run_steps_once(budget) == [bounded |-> TRUE, steps |-> 1]

\* orchestrator.run(steps=steps): the budget the orchestrator is given is the
\* one the caller gave.
Flow_run_steps(budget) == budget

\* flow.run(steps=...) called: Flow.run builds the Orchestrator of the flow
\* and starts its loop.
Flow_run(f, budget) ==
    /\ f \in made
    /\ orch.pc = "idle"
    /\ orch' = [flow |-> f, pc |-> "iterate", asked |-> budget,
                bounded |-> Flow_run_steps(budget).bounded,
                steps |-> Flow_run_steps(budget).steps,
                consumed |-> 0, task |-> None]
    /\ returned' = NoReturn
    /\ lastExit' = NoExit
    /\ lastAdd' = NoAdd
    /\ rendered' = NoRender
    /\ UNCHANGED <<scopeVars, flowVars, eventVars, taskVars, graphVars>>

\* One iteration of the loop up to the dispatch: the budget is checked, the
\* READY set recomputed, and either the run ends (Flow.run returns) or the
\* first READY task is dispatched.
Orchestrator_iterate ==
    /\ orch.pc = "iterate"
    /\ LET g == graph[orch.flow]
           spent == orch.bounded /\ orch.consumed >= orch.steps
           st == IF spent THEN status ELSE RecomputeReady(g, status)
           ready == ReadyTasks(g, st)
           running == {t \in Registered(g) : st[t] = "RUNNING"}
           result == Orchestrator_result(g, st, orch.consumed)
       IN IF spent \/ (ready = <<>> /\ running = {})
          THEN /\ status' = st
               /\ orch' = NoRun
               /\ returned' = [flow |-> orch.flow, asked |-> orch.asked,
                               orchestrator |-> result,
                               value |-> Flow_run_return(result)]
          ELSE IF ready = <<>>
          \* a dispatch is still in flight: the loop waits for it
          THEN /\ status' = st
               /\ orch' = orch
               /\ returned' = NoReturn
          ELSE /\ status' = [st EXCEPT ![Head(ready)] = "RUNNING"]
               /\ orch' = [orch EXCEPT !.pc = "dispatched", !.task = Head(ready)]
               /\ returned' = NoReturn
    /\ lastExit' = NoExit
    /\ lastAdd' = NoAdd
    /\ rendered' = NoRender
    /\ UNCHANGED <<scopeVars, flowVars, eventVars, depends_on, policy, graphVars>>

\* A dispatch whose outcome is lost: the task is left as it was.
Orchestrator_apply_lost(st, task, outcome) == st

\* Step (d): the terminal outcome of the dispatch becomes the task's status.
Orchestrator_apply(st, task, outcome) == [st EXCEPT ![task] = outcome]

\* The agent the task was dispatched to yields its outcome: the state
\* transition and its event are applied and the step counter advances.
Orchestrator_dispatched(outcome) ==
    /\ orch.pc = "dispatched"
    /\ status' = Orchestrator_apply(status, orch.task, outcome)
    /\ history' = Flow_add_events(history, thread_id[orch.flow], <<nextEvent>>)
    /\ appended' = [appended EXCEPT ![orch.flow] = Append(@, nextEvent)]
    /\ nextEvent' = nextEvent + 1
    /\ orch' = [orch EXCEPT !.pc = "iterate", !.consumed = @ + 1, !.task = None]
    /\ lastExit' = NoExit
    /\ lastAdd' = NoAdd
    /\ returned' = NoReturn
    /\ rendered' = NoRender
    /\ UNCHANGED <<scopeVars, flowVars, depends_on, policy, graphVars>>

\* ----------------------------------------------------- prompt templates
RECURSIVE DownstreamClosure(_, _)
DownstreamClosure(g, S) ==
    LET more == {e[2] : e \in {x \in g.edges : x[1] \in S}} IN
    IF more \subseteq S THEN S ELSE DownstreamClosure(g, S \cup more)

\* Graph.downstream_tasks(tasks): what depends on the tasks, directly or not,
\* the tasks themselves left out.
downstream_tasks(g, S) == DownstreamClosure(g, S) \ S

Kinds == {"agent", "task", "flow", "team", "instructions"}
InstructionLists == {<<>>, <<"instruction">>}

\* Template.should_render is True; InstructionsTemplate.should_render is
\* bool(self.instructions).
should_render(kind, instructions) ==
    IF kind = "instructions" THEN instructions # <<>> ELSE TRUE

\* What the jinja template makes of the fields and keyword arguments it is
\* handed: some text that is not empty.
jinja_render(kind, instructions, kwargs) == <<kind, instructions, kwargs>>

\* A render that does not ask should_render.
Template_render_always(kind, instructions, kwargs, g, h) ==
    [text |-> jinja_render(kind, instructions, kwargs),
     kwargs |-> kwargs, graph |-> g, history |-> h]

\* Template.render(**kwargs) of a template of the kind: the text returned,
\* and the flow's graph g and the event history h after the call.  The
\* fields are copied into a new dict, nothing of the flow is written.
Template_render(kind, instructions, kwargs, g, h) ==
    [text |-> IF ~should_render(kind, instructions) THEN EmptyString
              ELSE jinja_render(kind, instructions, kwargs),
     kwargs |-> kwargs, graph |-> g, history |-> h]

\* A render that hands the template the closures as walked from the context
\* tasks, those tasks included.
FlowTemplate_render_closures(g, h, tasks) ==
    Template_render("flow", <<>>,
        [upstream_tasks |-> UpstreamClosure(g, tasks),
         downstream_tasks |-> DownstreamClosure(g, tasks)], g, h)

\* FlowTemplate.render(), tasks being self.context.tasks.
FlowTemplate_render(g, h, tasks) ==
    Template_render("flow", <<>>,
        [upstream_tasks |-> upstream_tasks(g, tasks) \ tasks,
         downstream_tasks |-> downstream_tasks(g, tasks) \ tasks], g, h)

\* A prompt of the kind rendered for flow f with an execution context whose
\* tasks are the given ones.
Render(f, kind, tasks, instructions) ==
    /\ f \in made
    /\ tasks \subseteq Registered(graph[f])
    /\ LET r == IF kind = "flow" THEN FlowTemplate_render(graph[f], history, tasks)
                ELSE Template_render(kind, instructions, NoKwargs, graph[f], history)
       IN
        /\ graph' = [graph EXCEPT ![f] = r.graph]
        /\ history' = r.history
        /\ rendered' = [kind |-> kind, context |-> tasks, instructions |-> instructions,
                        kwargs |-> r.kwargs, text |-> r.text]
    /\ lastExit' = NoExit
    /\ lastAdd' = NoAdd
    /\ returned' = NoReturn
    /\ UNCHANGED <<scopeVars, flowVars, nextEvent, appended, taskVars, view, orch>>

\* ------------------------------------------- one thread of control
InitNoScope ==
    /\ ctxStore = [t \in Threads |-> EmptyCtx]
    /\ cm_stack = [f \in Flows |-> <<>>]
    /\ withStack = [t \in Threads |-> <<>>]

\* Every flow constructed already, with no flow active at the time.
InitFlowsMade ==
    /\ made = Flows
    /\ thread_id = [f \in Flows |-> f]
    /\ seed = [f \in Flows |-> NoSeed]

InitNoFlows ==
    /\ made = {}
    /\ thread_id = [f \in Flows |-> None]
    /\ seed = [f \in Flows |-> NoSeed]

InitNoEvents ==
    /\ history = [tid \in 1..NumFlows |-> <<>>]
    /\ nextEvent = 1
    /\ appended = [f \in Flows |-> <<>>]

InitPlainTasks ==
    /\ depends_on = [t \in Tasks |-> {}]
    /\ status = [t \in Tasks |-> "PENDING"]
    /\ policy = "auto"

InitEmptyGraphs ==
    /\ graph = [f \in Flows |-> EmptyGraph]
    /\ lastAdd = NoAdd
    /\ lastExit = NoExit
    /\ orch = NoRun
    /\ returned = NoReturn
    /\ rendered = NoRender
    /\ view = [f \in Flows |-> Unread]

InitScope ==
    /\ InitNoScope
    /\ InitFlowsMade
    /\ InitNoEvents
    /\ InitPlainTasks
    /\ InitEmptyGraphs

EnterMain == \E f \in Flows : Flow_enter(MainThread, f)
ExitMain == \E err \in BOOLEAN : Flow_exit(MainThread, err)

NextScope == EnterMain \/ ExitMain
SpecScope == InitScope /\ [][NextScope]_vars

\* ------------------------------------------- two threads of control
EnterAny == \E t \in Threads, f \in Flows :
                /\ Len(withStack[t]) < MaxThreadDepth
                /\ Flow_enter(t, f)
ExitAny == \E t \in Threads, err \in BOOLEAN : Flow_exit(t, err)

NextThreads == EnterAny \/ ExitAny
SpecThreads == InitScope /\ [][NextThreads]_vars

\* ------------------------------------- parent and child flows: events

EnterShallow == \E f \in Flows :
                    /\ Len(withStack[MainThread]) < MaxSeedDepth
                    /\ Flow_enter(MainThread, f)
Construct == \E f \in Flows, copy_parent \in BOOLEAN :
                Flow_init(MainThread, f, copy_parent)
AppendEvents == \E f \in Flows, k \in 1..2 : AddEvents(f, k)

InitSeedEvents ==
    /\ InitNoScope
    /\ InitNoFlows
    /\ InitNoEvents
    /\ InitPlainTasks
    /\ InitEmptyGraphs

NextSeedEvents == Construct \/ EnterShallow \/ ExitMain \/ AppendEvents
SpecSeedEvents == InitSeedEvents /\ [][NextSeedEvents]_vars

\* -------------------------------------- parent and child flows: tasks
\* Declared dependencies that form a DAG: on tasks created earlier only.
DagDeclarations == {d \in [Tasks -> SUBSET Tasks] : \A t \in Tasks : d[t] \subseteq 1..(t - 1)}

\* Declared dependencies on the task created just before only: chains.
ChainDeclarations == {d \in DagDeclarations : \A t \in Tasks : d[t] \subseteq {t - 1}}

AddTaskMain == \E t \in Tasks : AddTask(MainFlow, t)

\* One flow constructed with no flow active, whose graph the caller fills;
\* the other flows are constructed later.
InitMainFlowMade ==
    /\ made = {MainFlow}
    /\ thread_id = [f \in Flows |-> IF f = MainFlow THEN 1 ELSE None]
    /\ seed = [f \in Flows |-> NoSeed]

InitSeedTasks ==
    /\ InitNoScope
    /\ InitMainFlowMade
    /\ InitNoEvents
    /\ depends_on \in DagDeclarations
    /\ status \in [Tasks -> {"PENDING", "COMPLETE"}]
    /\ policy \in {"auto", "reject"}
    /\ InitEmptyGraphs

NextSeedTasks == Construct \/ EnterShallow \/ ExitMain \/ AddTaskMain
SpecSeedTasks == InitSeedTasks /\ [][NextSeedTasks]_vars

\* ----------------------------------------------- one flow's task graph
\* Declared dependencies after the tasks were created and one of them was
\* given one more dependency (back[1] on back[2]): cycles can be declared.
Declarations ==
    {[t \in Tasks |-> d[t] \cup (IF back[1] = t THEN {back[2]} ELSE {})] :
        d \in DagDeclarations, back \in Tasks \X Tasks}

ReadTasksMain == ReadTasks(MainFlow)

InitGraph ==
    /\ InitNoScope
    /\ InitFlowsMade
    /\ InitNoEvents
    /\ depends_on \in Declarations
    /\ status = [t \in Tasks |-> "PENDING"]
    /\ policy \in {"auto", "reject"}
    /\ InitEmptyGraphs

NextGraph == AddTaskMain \/ ReadTasksMain
SpecGraph == InitGraph /\ [][NextGraph]_vars

\* ------------------------------------------------------ a flow's runs
StartRun == \E budget \in Budgets : Flow_run(MainFlow, budget)
DispatchDone == \E outcome \in {"COMPLETE", "FAILED"} : Orchestrator_dispatched(outcome)

InitRun ==
    /\ InitNoScope
    /\ InitFlowsMade
    /\ InitNoEvents
    /\ depends_on \in DagDeclarations
    /\ status = [t \in Tasks |-> "PENDING"]
    /\ policy \in {"auto", "reject"}
    /\ InitEmptyGraphs

NextRun == AddTaskMain \/ StartRun \/ Orchestrator_iterate \/ DispatchDone
SpecRun == InitRun /\ [][NextRun]_vars

\* Runs with no step budget, with a loop that keeps going once called and
\* agents that eventually yield their outcome.
StartUnbounded == Flow_run(MainFlow, NoBudget)

NextRunFair == AddTaskMain \/ StartUnbounded \/ Orchestrator_iterate \/ DispatchDone
SpecRunFair ==
    /\ InitRun
    /\ [][NextRunFair]_vars
    /\ WF_vars(Orchestrator_iterate)
    /\ WF_vars(DispatchDone)

\* ------------------------------------------------- a flow's lifetime
\* Tasks added to the first flow, runs of it, session scopes and child flows
\* constructed inside them.  Each task depends on the one created before it.
OneChain == [t \in Tasks |-> {t - 1} \cap Tasks]

InitLifetime ==
    /\ InitNoScope
    /\ InitMainFlowMade
    /\ InitNoEvents
    /\ depends_on = OneChain
    /\ status = [t \in Tasks |-> "PENDING"]
    /\ policy \in {"auto", "reject"}
    /\ InitEmptyGraphs

NextLifetime ==
    \/ AddTaskMain
    \/ StartUnbounded
    \/ Orchestrator_iterate
    \/ DispatchDone
    \/ EnterShallow
    \/ ExitMain
    \/ Construct
SpecLifetime == InitLifetime /\ [][NextLifetime]_vars

\* ------------------------------------------------------ prompt rendering
RenderFlow == \E tasks \in SUBSET Tasks : Render(MainFlow, "flow", tasks, <<>>)
RenderOther == \E kind \in Kinds \ {"flow"}, instructions \in InstructionLists :
                  Render(MainFlow, kind, {}, instructions)

InitRender ==
    /\ InitNoScope
    /\ InitFlowsMade
    /\ InitNoEvents
    /\ depends_on \in DagDeclarations
    /\ status = [t \in Tasks |-> "PENDING"]
    /\ policy \in {"auto", "reject"}
    /\ InitEmptyGraphs

NextRender == AddTaskMain \/ RenderFlow \/ RenderOther
SpecRender == InitRender /\ [][NextRender]_vars

\* Rendering for a flow that also has events, with the execution context of
\* no task or of one task.
RenderFlowOne == \E tasks \in {{}} \cup {{t} : t \in Tasks} :
                    Render(MainFlow, "flow", tasks, <<>>)
AppendOne == AddEvents(MainFlow, 1)

InitRenderLog ==
    /\ InitNoScope
    /\ InitFlowsMade
    /\ InitNoEvents
    /\ depends_on \in ChainDeclarations
    /\ status = [t \in Tasks |-> "PENDING"]
    /\ policy \in {"auto", "reject"}
    /\ InitEmptyGraphs

NextRenderLog == AddTaskMain \/ AppendOne \/ RenderFlowOne \/ RenderOther
SpecRenderLog == InitRenderLog /\ [][NextRenderLog]_vars

\* The flow the open `with` blocks of thread t say is active.
InnermostOpen(t) ==
    IF withStack[t] = <<>> THEN None ELSE withStack[t][Len(withStack[t])].flow

\* C1: exiting a session scope pops exactly the context manager the matching
\* enter pushed and puts the ambient flow back to what it was just before that
\* enter, whether the body ended normally or raised (and then the exception
\* still propagates).
C1_ExitRestoresPrior ==
    lastExit.by # None =>
        /\ lastExit.popped = lastExit.matching
        /\ lastExit.after = lastExit.before
        /\ lastExit.raised = lastExit.err

\* A scope whose body raised was exited inside another open scope, and the
\* ambient flow is that outer scope's flow again.
C1_Witness ==
    /\ lastExit.by # None
    /\ lastExit.err
    /\ lastExit.before.flow # None
    /\ get_flow(lastExit.by) = lastExit.before.flow

\* C2: after any well-nested sequence of enters and exits, the ambient flow is
\* the most recently entered flow whose scope is still open, and None when no
\* scope is open.
C2_AmbientIsInnermost == get_flow(MainThread) = InnermostOpen(MainThread)

\* The same flow entered twice with another flow in between, and the inner
\* scope already exited again.
C2_Witness ==
    /\ Len(withStack[MainThread]) = 2
    /\ withStack[MainThread][1].flow = 1
    /\ withStack[MainThread][2].flow = 2
    /\ lastExit.by = MainThread
    /\ lastExit.before.flow = 2
    /\ get_flow(MainThread) = 2

\* C3: each thread of control owns its scope stack: an exit pops only a scope
\* the exiting thread pushed, and every thread's ambient flow stays the flow
\* of its own innermost open scope whatever the other thread does.
C3_ThreadOwnsItsScopes ==
    /\ lastExit.by # None => lastExit.owner = lastExit.by
    /\ \A t \in Threads : get_flow(t) = InnermostOpen(t)

SeededFlows == {c \in made : seed[c].copied}
ChildFlows == {c \in made : seed[c].parent # None}

\* C4: a child constructed with copy-parent under an active parent holds,
\* right after construction, exactly the parent's completed tasks and none of
\* its incomplete ones, whatever the parent's graph and statuses.
C4_ChildHoldsCompletedOnly ==
    \A c \in SeededFlows :
        /\ seed[c].built = seed[c].completed
        /\ seed[c].built \cap seed[c].incomplete = {}

\* C5: at every later point the unfiltered event query of a seeded child is
\* the parent's query at construction time followed by what the child has
\* been given since, in that order.
C5_ChildEventsAreSeedThenOwn ==
    \A c \in SeededFlows :
        Flow_get_events(thread_id[c]) = seed[c].events \o appended[c]

\* A seeded child that copied events, appended its own, while the parent went
\* on appending too.
C5_Witness ==
    \E c \in SeededFlows :
        /\ seed[c].events # <<>>
        /\ appended[c] # <<>>
        /\ Len(appended[seed[c].parent]) > seed[c].parentLen

\* What the parent of c was given after c was constructed.
ParentLater(c) ==
    SubSeq(appended[seed[c].parent], seed[c].parentLen + 1,
           Len(appended[seed[c].parent]))

\* C6: events are not shared after construction: what the child is given
\* never shows in the parent's query, and what the parent is given after the
\* child's construction never shows in the child's query.
C6_EventsNotShared ==
    \A c \in ChildFlows :
        /\ SeqElems(appended[c])
             \cap SeqElems(Flow_get_events(thread_id[seed[c].parent])) = {}
        /\ SeqElems(ParentLater(c)) \cap SeqElems(Flow_get_events(thread_id[c])) = {}

\* Parent and child were both given events after the child's construction.
C6_Witness ==
    \E c \in ChildFlows :
        /\ appended[c] # <<>>
        /\ ParentLater(c) # <<>>
        /\ seed[c].events # <<>>

\* C7: a call that would close a dependency cycle is rejected with a
\* CycleError: the graph is never cyclic, a rejected call leaves tasks and
\* edges as they were, and the topological sort still succeeds with the
\* ordering of the prior state.
C7_CycleRejected ==
    /\ \A f \in made : ~HasCycle(graph[f])
    /\ lastAdd.err = "CycleError" => lastAdd.unchanged /\ lastAdd.sorted

\* A cycle was rejected on a graph that already held tasks and edges.
C7_Witness ==
    /\ lastAdd.err = "CycleError"
    /\ lastAdd.flow = MainFlow
    /\ graph[MainFlow].edges # {}

PositionIn(s, x) == CHOOSE i \in DOMAIN s : s[i] = x

\* C8: the tasks view holds every registered task exactly once, each after
\* all the tasks it depends on.
C8_TasksViewIsTopological ==
    \A f \in made :
        LET v == Flow_tasks(f).value IN
        /\ Len(v) = Cardinality(Registered(graph[f]))
        /\ SeqElems(v) = Registered(graph[f])
        /\ \A i \in DOMAIN v : \A d \in depends_on[v[i]] :
              \E j \in 1..(i - 1) : v[j] = d

\* A task registered before the task it depends on, which the view puts
\* after it.
C8_Witness ==
    \E i, j \in DOMAIN graph[MainFlow].tasks :
        /\ i < j
        /\ graph[MainFlow].tasks[j] \in depends_on[graph[MainFlow].tasks[i]]
        /\ Len(graph[MainFlow].tasks) = NumTasks

\* Every place of v holds the first registered of the tasks whose
\* dependencies all come before it.
InsertionOrderTieBreak(v, g) ==
    \A i \in DOMAIN v :
        LET done == {v[j] : j \in 1..(i - 1)}
            free == {x \in Registered(g) \ done :
                        \A e \in g.edges : e[2] = x => e[1] \in done}
        IN /\ v[i] \in free
           /\ \A x \in free : PositionIn(g.tasks, v[i]) <= PositionIn(g.tasks, x)

C10_FailedUpstreamBlocks ==
    /\ \A f \in made : \A t \in Registered(graph[f]) :
          (\E u \in upstream_tasks(graph[f], {t}) : status[u] = "FAILED")
              => status[t] = "PENDING"
    /\ (returned.flow # None /\ BlockedByFailure(graph[returned.flow], status) # {})
          => /\ returned.value.reported
             /\ ~returned.value.complete
             /\ BlockedByFailure(graph[returned.flow], status)
                    \subseteq returned.value.blocked

\* The tasks of flow f a dispatch could still take up.
Dispatchable(f) ==
    {t \in Registered(graph[f]) : RecomputeReady(graph[f], status)[t] = "READY"}

\* The budget holds in every state of a run and at its end, and a run that
\* leaves work undone has used its budget up.
StepsWithinBudget ==
    /\ orch.asked.bounded => orch.consumed <= orch.asked.steps
    /\ (orch.asked.bounded /\ orch.pc = "dispatched") => orch.consumed < orch.asked.steps
    /\ (returned.flow # None /\ returned.asked.bounded) =>
          /\ returned.orchestrator.steps <= returned.asked.steps
          /\ Dispatchable(returned.flow) # {} =>
                returned.orchestrator.steps = returned.asked.steps

\* What a task has reached stays in the flow: a terminal task keeps its
\* status, and only a task that is not terminal is dispatched.
ProgressPersists ==
    \A t \in Tasks :
        /\ status[t] \in Terminal => status'[t] = status[t]
        /\ (status'[t] = "RUNNING" /\ status[t] # "RUNNING") => status[t] \notin Terminal

\* C11: run(steps=n) performs at most n step iterations, one dispatch each,
\* and progress persists between run calls: a later run starts from the
\* statuses the earlier one left and never dispatches a terminal task again.
C11_StepsBoundAndResume == []StepsWithinBudget /\ [][ProgressPersists]_vars

\* A run(steps=1) that consumed its one step has just ended, and two tasks
\* that do not depend on each other are both complete: the other one was
\* completed by an earlier run.
C11_Witness ==
    /\ returned.flow = MainFlow
    /\ returned.asked = [bounded |-> TRUE, steps |-> 1]
    /\ returned.orchestrator.steps = 1
    /\ \E x, y \in Registered(graph[MainFlow]) :
          /\ x # y
          /\ depends_on[x] = {} /\ depends_on[y] = {}
          /\ status[x] = "COMPLETE" /\ status[y] = "COMPLETE"

\* A run has just ended with no task READY or RUNNING and PENDING tasks left.
EndedInDeadlock ==
    /\ returned.flow # None
    /\ Dispatchable(returned.flow) = {}
    /\ \E t \in Registered(graph[returned.flow]) : status[t] \notin Terminal

\* C12: the caller of run receives a result that tells the steps consumed,
\* whether the graph is complete, and the failed and the blocked tasks; a
\* deadlock is reported in that result.
C12_CallerReceivesResult ==
    returned.flow # None =>
        /\ returned.value.reported
        /\ returned.value = returned.orchestrator
        /\ EndedInDeadlock =>
              /\ ~returned.value.complete
              /\ returned.value.blocked # {}

\* The run that has just ended was not stopped by its budget.
EndedWithBudgetLeft ==
    /\ returned.flow # None
    /\ returned.asked.bounded => returned.orchestrator.steps < returned.asked.steps

\* C13: a failed dispatch is recorded as the task's FAILED status plus an
\* event (every terminal status has its event in the flow's thread) and does
\* not abort the run: a run that was not stopped by its budget ends with
\* every task that has no FAILED task upstream in a terminal state.
C13_FailureDoesNotAbort ==
    /\ Len(Flow_get_events(thread_id[MainFlow]))
          = Cardinality({t \in Tasks : status[t] \in Terminal})
    /\ EndedWithBudgetLeft =>
          \A t \in Registered(graph[returned.flow]) :
              (\A u \in upstream_tasks(graph[returned.flow], {t}) : status[u] # "FAILED")
                  => status[t] \in Terminal

\* An unbounded run has ended with a FAILED task, a task blocked behind it,
\* and a task that does not depend on it and comes later in the order
\* complete.
C13_Witness ==
    /\ returned.flow = MainFlow
    /\ ~returned.asked.bounded
    /\ returned.orchestrator.steps = 2
    /\ \E x, y, z \in Registered(graph[MainFlow]) :
          /\ status[x] = "FAILED" /\ status[y] = "COMPLETE" /\ status[z] = "PENDING"
          /\ x \notin upstream_tasks(graph[MainFlow], {y})
          /\ x \in upstream_tasks(graph[MainFlow], {z})
          /\ PositionIn(topological_sort(graph[MainFlow]), x)
                < PositionIn(topological_sort(graph[MainFlow]), y)

\* X holds, with each of its tasks, the tasks that one depends on.
ClosedUpstream(g, X) == \A e \in g.edges : e[2] \in X => e[1] \in X
ClosedDownstream(g, X) == \A e \in g.edges : e[1] \in X => e[2] \in X

\* The tasks some task of S transitively requires, S included: what every
\* set that holds S and is closed under dependencies holds.
TransitivelyRequired(g, S) ==
    {t \in Tasks : \A X \in SUBSET Tasks : (S \subseteq X /\ ClosedUpstream(g, X)) => t \in X}
TransitivelyDependent(g, S) ==
    {t \in Tasks : \A X \in SUBSET Tasks : (S \subseteq X /\ ClosedDownstream(g, X)) => t \in X}

\* C14: for every graph and task set S, upstream_tasks(S) is what S
\* transitively requires minus S, downstream_tasks(S) is what transitively
\* depends on S minus S, neither holds a task of S, and the sets the flow
\* prompt is handed hold no task of the execution context.
C14_ClosuresExcludeInput ==
    /\ \A f \in made : \A S \in SUBSET Registered(graph[f]) :
          /\ upstream_tasks(graph[f], S) = TransitivelyRequired(graph[f], S) \ S
          /\ downstream_tasks(graph[f], S) = TransitivelyDependent(graph[f], S) \ S
          /\ upstream_tasks(graph[f], S) \cap S = {}
          /\ downstream_tasks(graph[f], S) \cap S = {}
    /\ rendered.kind = "flow" =>
          /\ rendered.kwargs.upstream_tasks \cap rendered.context = {}
          /\ rendered.kwargs.downstream_tasks \cap rendered.context = {}
          /\ rendered.kwargs.upstream_tasks
                = TransitivelyRequired(graph[MainFlow], rendered.context) \ rendered.context
          /\ rendered.kwargs.downstream_tasks
                = TransitivelyDependent(graph[MainFlow], rendered.context) \ rendered.context

\* The flow prompt was rendered for the middle task of a chain: one task
\* upstream, one downstream.
C14_Witness ==
    /\ rendered.kind = "flow"
    /\ Cardinality(rendered.context) = 1
    /\ rendered.kwargs.upstream_tasks # {}
    /\ rendered.kwargs.downstream_tasks # {}

\* A render step leaves the task graphs, the statuses and the event log as
\* they were.
RenderWritesNothing ==
    rendered'.kind # "none" =>
        /\ graph' = graph
        /\ status' = status
        /\ depends_on' = depends_on
        /\ history' = history

\* A template that should not render gives the empty string.
NotRenderedIsEmpty ==
    (rendered.kind # "none" /\ ~should_render(rendered.kind, rendered.instructions))
        => rendered.text = EmptyString

\* C18: rendering a flow, task, agent, team or instructions prompt leaves the
\* flow's tasks, edges, statuses and event log unchanged, also when the
\* upstream and downstream sets are empty; and a template whose
\* should_render() is false renders to the empty string.
C18_RenderIsReadOnly == [][RenderWritesNothing]_vars /\ []NotRenderedIsEmpty

\* An instructions template with no instructions was rendered, for a flow
\* that has tasks, edges and events.
C18_Witness ==
    /\ rendered.kind = "instructions"
    /\ rendered.instructions = <<>>
    /\ rendered.text = EmptyString
    /\ graph[MainFlow].edges # {}
    /\ Flow_get_events(thread_id[MainFlow]) # <<>>

\* An unbounded run that has just ended found no task READY or RUNNING, and
\* either every task is terminal or a task is blocked behind a failed one.
UnboundedEndIsCompleteOrDeadlock ==
    (returned.flow # None /\ ~returned.asked.bounded) =>
        /\ Dispatchable(returned.flow) = {}
        /\ \A t \in Tasks : status[t] # "RUNNING"
        /\ \/ returned.orchestrator.complete
           \/ BlockedByFailure(graph[returned.flow], status) # {}

\* An iteration of an unbounded run that finds nothing READY ends the run.
StopsWhenNothingReady ==
    (/\ orch.pc = "iterate"
     /\ ~orch.asked.bounded
     /\ Dispatchable(orch.flow) = {}
     /\ orch' # orch) => orch'.pc = "idle"

\* C15: a run with no step budget whose agents all eventually yield an
\* outcome terminates; it ends at the first iteration that finds no task
\* READY and none RUNNING, with every task terminal or with a PENDING task
\* blocked behind a failed dependency.
C15_UnboundedRunTerminates ==
    /\ (orch.pc # "idle" /\ ~orch.asked.bounded) ~> (orch.pc = "idle")
    /\ []UnboundedEndIsCompleteOrDeadlock
    /\ [][StopsWhenNothingReady]_vars

\* An unbounded run has ended in a deadlock after at least two dispatches:
\* a task failed and another is blocked behind it.
C15_Witness ==
    /\ returned.flow = MainFlow
    /\ ~returned.asked.bounded
    /\ ~returned.orchestrator.complete
    /\ returned.orchestrator.steps >= 2
    /\ BlockedByFailure(graph[MainFlow], status) # {}

\* C16: the budget is checked between dispatches only: a dispatch that was
\* started is finished and applied before the run returns, so no task of the
\* flow is RUNNING when a run call returns or while no run is in progress,
\* and the only task RUNNING during a run is the one being dispatched.
C16_NoRunningAtReturn ==
    /\ returned.flow # None => \A t \in Tasks : status[t] # "RUNNING"
    /\ orch.pc = "idle" => \A t \in Tasks : status[t] # "RUNNING"
    /\ orch.pc = "iterate" => \A t \in Tasks : status[t] # "RUNNING"
    /\ orch.pc = "dispatched" =>
          /\ status[orch.task] = "RUNNING"
          /\ \A t \in Tasks \ {orch.task} : status[t] # "RUNNING"

\* A run(steps=1) returned after its one dispatch with another task ready:
\* the budget ran out, the dispatched task is terminal.
C16_Witness ==
    /\ returned.flow = MainFlow
    /\ returned.asked = [bounded |-> TRUE, steps |-> 1]
    /\ returned.orchestrator.steps = 1
    /\ Dispatchable(MainFlow) # {}
    /\ \E t \in Registered(graph[MainFlow]) : status[t] \in Terminal

\* Every flow's graph after the step holds the tasks and the edges it held
\* before it.
GraphOnlyGrows ==
    \A f \in Flows :
        /\ Registered(graph[f]) \subseteq Registered(graph'[f])
        /\ graph[f].edges \subseteq graph'[f].edges

\* C17: a flow's graph only grows: whatever add_task calls, runs, session
\* enters and exits and child constructions take place, a registered task
\* and its dependency edges are never removed from a flow's graph.
C17_GraphOnlyGrows == [][GraphOnlyGrows]_vars

\* A child was seeded from a parent whose graph has edges, after a run of
\* the parent, and both graphs still hold their tasks.
C17_Witness ==
    \E c \in SeededFlows :
        /\ graph[seed[c].parent].edges # {}
        /\ Registered(graph[c]) # {}
        /\ \E t \in Registered(graph[seed[c].parent]) : status[t] = "FAILED"
        /\ withStack[MainThread] = <<>>

\* The step is a Flow(...) call: one that made a flow, or one that raised.
ConstructedNow == made' \ made
ConstructorRaised == lastAdd'.flow # None /\ lastAdd'.flow \notin made /\ made' = made

\* A flow constructed with no flow active, or with copy_parent false, has an
\* empty graph and an empty thread.
UnseededStartsEmpty ==
    \A c \in ConstructedNow :
        (InnermostOpen(MainThread) = None \/ ~seed'[c].copied) =>
            /\ graph'[c] = EmptyGraph
            /\ history'[thread_id'[c]] = <<>>

\* A construction leaves the graphs and the events of the flows that exist,
\* and the ambient context, as they were.
ConstructionWritesNothingElse ==
    (ConstructedNow # {} \/ ConstructorRaised) =>
        /\ \A f \in made :
              /\ graph'[f] = graph[f]
              /\ history'[thread_id[f]] = history[thread_id[f]]
              /\ thread_id'[f] = thread_id[f]
        /\ ctxStore' = ctxStore
        /\ status' = status

\* C19: constructing a Flow seeds nothing unless a parent flow is active and
\* copy_parent is set: otherwise the new flow starts with an empty graph and
\* no events in its thread; and in every case the construction leaves the
\* parent's graph, the parent's events and the ambient flow unchanged.
C19_ConstructionSeedsOnlyFromActiveParent ==
    [][UnseededStartsEmpty /\ ConstructionWritesNothingElse]_vars

\* A flow was constructed with copy_parent false inside the scope of a
\* parent that has events and a complete task: it is empty, the parent is
\* still the ambient flow.
C19_Witness ==
    \E c \in ChildFlows :
        /\ ~seed[c].copied
        /\ graph[c] = EmptyGraph
        /\ Flow_get_events(thread_id[c]) = <<>>
        /\ Flow_get_events(thread_id[seed[c].parent]) # <<>>
        /\ \E t \in Registered(graph[seed[c].parent]) : is_complete(t)
        /\ get_flow(MainThread) = seed[c].parent

====
